---- MODULE Spec2Model ----
(***************************************************************************)
(* Universal Code Converter & Enhancer (src/app.py).                       *)
(*                                                                         *)
(* The program is one Streamlit script.  Every user interaction re-runs    *)
(* the script from its first line: the credential check, the construction  *)
(* of the model client, the input form and, when the run was started by    *)
(* the "Process Code" button, the handler that sends the code to one of    *)
(* two LLM chains.  The model follows one session: the position of the     *)
(* running script (pc), the widget state that survives re-runs, the page   *)
(* elements the current run has produced, and the calls made on the two    *)
(* chains.                                                                 *)
(*                                                                         *)
(* Text (prompt templates, messages) is kept as a sequence of words; a     *)
(* placeholder of a template is one element of that sequence and is        *)
(* replaced by its value as one word.  A slug is a sequence of characters. *)
(* Markdown markup is not part of the words: a code span is written as its *)
(* content, and the line of three backquotes that fences the code in a     *)
(* prompt is the word "[fence]".                                           *)
(***************************************************************************)
EXTENDS Integers, Sequences, FiniteSets, TLC

\* ------------------------------------------------------------------ text

Lit(ws) ==
    [i \in 1..Len(ws) |-> [k |-> "lit", v |-> ws[i]]]

Slot(n) ==
    <<[k |-> "slot", v |-> n]>>

\* str.format / f-string: every placeholder is replaced by its value, the
\* literal text is copied.
Render(template, vals) ==
    [i \in 1..Len(template) |->
        IF template[i].k = "slot" THEN vals[template[i].v] ELSE template[i].v]

SlotPositions(template, n) ==
    {i \in 1..Len(template) : template[i].k = "slot" /\ template[i].v = n}

Occurrences(text, w) ==
    Cardinality({i \in 1..Len(text) : text[i] = w})

\* ------------------------------------------------------------ LANGUAGES

\* Variant: TypeScript given the slug of JavaScript.
LANGUAGES_shared_slug ==
    [name \in {"C++", "Python", "Java", "JavaScript", "Go", "Rust",
               "TypeScript", "C#", "PHP", "Ruby"} |->
        CASE name = "C++"        -> <<"c", "p", "p">>
          [] name = "Python"     -> <<"p", "y", "t", "h", "o", "n">>
          [] name = "Java"       -> <<"j", "a", "v", "a">>
          [] name = "JavaScript" -> <<"j", "a", "v", "a", "s", "c", "r", "i", "p", "t">>
          [] name = "Go"         -> <<"g", "o">>
          [] name = "Rust"       -> <<"r", "u", "s", "t">>
          [] name = "TypeScript" -> <<"j", "a", "v", "a", "s", "c", "r", "i", "p", "t">>
          [] name = "C#"         -> <<"c", "s", "h", "a", "r", "p">>
          [] name = "PHP"        -> <<"p", "h", "p">>
          [] name = "Ruby"       -> <<"r", "u", "b", "y">>]

LANGUAGES ==
    [name \in {"C++", "Python", "Java", "JavaScript", "Go", "Rust",
               "TypeScript", "C#", "PHP", "Ruby"} |->
        CASE name = "C++"        -> <<"c", "p", "p">>
          [] name = "Python"     -> <<"p", "y", "t", "h", "o", "n">>
          [] name = "Java"       -> <<"j", "a", "v", "a">>
          [] name = "JavaScript" -> <<"j", "a", "v", "a", "s", "c", "r", "i", "p", "t">>
          [] name = "Go"         -> <<"g", "o">>
          [] name = "Rust"       -> <<"r", "u", "s", "t">>
          [] name = "TypeScript" -> <<"t", "y", "p", "e", "s", "c", "r", "i", "p", "t">>
          [] name = "C#"         -> <<"c", "s", "h", "a", "r", "p">>
          [] name = "PHP"        -> <<"p", "h", "p">>
          [] name = "Ruby"       -> <<"r", "u", "b", "y">>]

LanguageNames ==
    DOMAIN LANGUAGES

\* index=1 of list(LANGUAGES.keys()) in both select boxes
DefaultLanguage ==
    "Python"

LowercaseChars ==
    {"a", "b", "c", "d", "e", "f", "g", "h", "i", "j", "k", "l", "m",
     "n", "o", "p", "q", "r", "s", "t", "u", "v", "w", "x", "y", "z"}

\* ------------------------------------------------------ prompt templates

\* Variant: the last line names the source language.
conversion_template_source_last ==
    Lit(<<"You", "are", "an", "expert", "code", "converter.", "Convert",
          "the", "following">>)
    \o Slot("input_language") \o Lit(<<"code", "to">>)
    \o Slot("output_language")
    \o Lit(<<"code.", "Focus", "on", "maintaining", "logic", "and",
             "functionality,", "and", "use", "idiomatic">>)
    \o Slot("output_language")
    \o Lit(<<"where", "appropriate.", "Provide", "only", "the", "converted",
             "code,", "without", "any", "extra", "explanations,", "comments",
             "outside", "the", "code,", "or", "markdown", "comments", "like",
             "'Here", "is", "the", "converted", "code:'.">>)
    \o Slot("input_language") \o Lit(<<"Code:", "[fence]">>)
    \o Slot("code") \o Lit(<<"[fence]">>)
    \o Slot("input_language") \o Lit(<<"Code:">>)

conversion_template ==
    Lit(<<"You", "are", "an", "expert", "code", "converter.", "Convert",
          "the", "following">>)
    \o Slot("input_language") \o Lit(<<"code", "to">>)
    \o Slot("output_language")
    \o Lit(<<"code.", "Focus", "on", "maintaining", "logic", "and",
             "functionality,", "and", "use", "idiomatic">>)
    \o Slot("output_language")
    \o Lit(<<"where", "appropriate.", "Provide", "only", "the", "converted",
             "code,", "without", "any", "extra", "explanations,", "comments",
             "outside", "the", "code,", "or", "markdown", "comments", "like",
             "'Here", "is", "the", "converted", "code:'.">>)
    \o Slot("input_language") \o Lit(<<"Code:", "[fence]">>)
    \o Slot("code") \o Lit(<<"[fence]">>)
    \o Slot("output_language") \o Lit(<<"Code:">>)

\* Variant: the code is appended a second time.
readability_template_code_twice ==
    Lit(<<"You", "are", "an", "expert", "code", "improver.", "Improve",
          "the", "readability,", "clarity,", "and", "adherence", "to",
          "standard", "best", "practices", "of", "the", "following">>)
    \o Slot("language")
    \o Lit(<<"code.", "This", "includes", "better", "variable", "names,",
             "consistent", "formatting,", "comments", "where", "necessary,",
             "and", "breaking", "down", "complex", "parts.", "Provide",
             "only", "the", "improved", "code,", "without", "any", "extra",
             "explanations,", "comments", "outside", "the", "code,", "or",
             "markdown", "comments", "like", "'Here", "is", "the",
             "improved", "code:'.">>)
    \o Slot("language") \o Lit(<<"Code:", "[fence]">>)
    \o Slot("code") \o Lit(<<"[fence]", "Improved">>)
    \o Slot("language") \o Lit(<<"Code:">>) \o Slot("code")

readability_template ==
    Lit(<<"You", "are", "an", "expert", "code", "improver.", "Improve",
          "the", "readability,", "clarity,", "and", "adherence", "to",
          "standard", "best", "practices", "of", "the", "following">>)
    \o Slot("language")
    \o Lit(<<"code.", "This", "includes", "better", "variable", "names,",
             "consistent", "formatting,", "comments", "where", "necessary,",
             "and", "breaking", "down", "complex", "parts.", "Provide",
             "only", "the", "improved", "code,", "without", "any", "extra",
             "explanations,", "comments", "outside", "the", "code,", "or",
             "markdown", "comments", "like", "'Here", "is", "the",
             "improved", "code:'.">>)
    \o Slot("language") \o Lit(<<"Code:", "[fence]">>)
    \o Slot("code") \o Lit(<<"[fence]", "Improved">>)
    \o Slot("language") \o Lit(<<"Code:">>)

\* ------------------------------------------------------------- messages

CredentialName ==
    "GOOGLE_API_KEY"

MissingKeyMessage ==
    Lit(<<"GOOGLE_API_KEY", "not", "found", "in", "environment",
          "variables.", "Please", "set", "it", "in", "a", ".env", "file",
          "or", "directly", "in", "your", "environment.">>)

InitFailedMessage ==
    Lit(<<"Failed", "to", "initialize", "Gemini", "LLM.", "Check", "your",
          "GOOGLE_API_KEY", "and", "internet", "connection.",
          "Error:">>) \o Slot("e")

EmptyInputMessage ==
    Lit(<<"Please", "enter", "some", "code", "to", "process.">>)

ImprovedMessage ==
    Lit(<<"Code", "readability", "improved", "for">>)
    \o Slot("input_language_name") \o Lit(<<"!">>)

ConvertedMessage ==
    Lit(<<"Code", "converted", "from">>) \o Slot("input_language_name")
    \o Lit(<<"to">>) \o Slot("output_language_name") \o Lit(<<"!">>)

ProcessingErrorMessage ==
    Lit(<<"An", "error", "occurred", "during", "processing:">>) \o Slot("e")

CheckInputsMessage ==
    Lit(<<"Please", "check", "your", "input", "code,", "selected",
          "languages,", "and", "ensure", "your", "Google", "API", "Key",
          "is", "valid", "and", "active.">>)

TipMessage ==
    Lit(<<"Tip:", "If", "you", "select", "the", "same", "input", "and",
          "output", "language,", "the", "tool", "will", "automatically",
          "enhance", "the", "code's", "readability!">>)

Msg(kind, id, template, vals) ==
    [kind |-> kind, id |-> id, text |-> Render(template, vals)]

NoVals ==
    [n \in {} |-> ""]

\* ------------------------------------------------------- input domains

\* How many of the sample contents of the code text area, and how many of
\* the sample answers of the model, are tried.
MaxCodes ==
    3

MaxTexts ==
    3

SampleCodes ==
    <<"", "x=1", "int x=1;", "puts 1">>

SampleTexts ==
    <<"", "x = 1", "x = 1  # assign", "Here is the converted code:">>

FirstOf(samples, n) ==
    {samples[i] : i \in {j \in 1..Len(samples) : j <= n}}

\* Contents of the code text area: empty, or a program.
Codes ==
    FirstOf(SampleCodes, MaxCodes)

\* What the model can answer: nothing, code, code with a comment, prose.
Texts ==
    FirstOf(SampleTexts, MaxTexts)

\* Exceptions a step can raise.
RaisedBy(step) ==
    CASE step = "init"    -> {"ValidationError"}
      [] step = "run"     -> {"ConnectionError", "ResourceExhausted"}
      [] step = "code"    -> {"StreamlitAPIException"}
      [] step = "success" -> {"StreamlitAPIException"}

\* ---------------------------------------------------------------- state

VARIABLES
    hasKey,                 \* "GOOGLE_API_KEY" in os.environ
    pc,                     \* position of the running script
    pressed,                \* st.button(...) is True in this run
    sel_input,              \* widget state: "Select Input Language"
    sel_output,             \* widget state: "Select Output Language"
    input_code,             \* widget state: text area, key "input_code"
    form,                   \* the input widgets are on the page
    output_code_display,    \* the st.empty() placeholder of column 2
    messages,               \* st.error/warning/success/info of this run
    calls,                  \* chain.run invocations of this run
    input_language_name,
    input_language_slug,
    output_language_name,
    output_language_slug,
    processed_code,
    exc,                    \* the exception being handled
    fault,                  \* an exception left the script uncaught
    prev                    \* how the previous run of the script ended

vars ==
    <<hasKey, pc, pressed, sel_input, sel_output, input_code, form,
      output_code_display, messages, calls, input_language_name,
      input_language_slug, output_language_name, output_language_slug,
      processed_code, exc, fault, prev>>

widgets ==
    <<sel_input, sel_output, input_code>>

locals ==
    <<input_language_name, input_language_slug, output_language_name,
      output_language_slug>>

NoOutput ==
    [shown |-> FALSE, text |-> "", language |-> <<>>]

\* processed_code before the chain has returned (the name is not bound)
Unbound ==
    "<unbound>"

HasMessage(id) ==
    \E i \in 1..Len(messages) : messages[i].id = id

\* How the current run has ended (or "Running").
Outcome ==
    CASE HasMessage("success")          -> "Succeeded"
      [] HasMessage("processing_error") -> "Failed"
      [] HasMessage("empty_input")      -> "Rejected"
      [] pc = "stopped"                 -> "Stopped"
      [] pc = "crashed"                 -> "Crashed"
      [] pc = "done"                    -> "NoRequest"
      [] OTHER                          -> "Running"

Init ==
    /\ hasKey \in BOOLEAN
    /\ pc = "start"
    /\ pressed = FALSE
    /\ sel_input = DefaultLanguage
    /\ sel_output = DefaultLanguage
    /\ input_code = ""
    /\ form = FALSE
    /\ output_code_display = NoOutput
    /\ messages = <<>>
    /\ calls = <<>>
    /\ input_language_name = ""
    /\ input_language_slug = <<>>
    /\ output_language_name = ""
    /\ output_language_slug = <<>>
    /\ processed_code = Unbound
    /\ exc = ""
    /\ fault = FALSE
    /\ prev = "None"

\* ------------------------------------------------------------- startup

\* if "GOOGLE_API_KEY" not in os.environ: st.error(...); st.stop()
\* Variant: the error is shown but st.stop() is missing.
CheckCredentialNoStop ==
    /\ pc = "start"
    /\ IF hasKey
         THEN UNCHANGED messages
         ELSE messages' = Append(messages,
                  Msg("error", "missing_key", MissingKeyMessage, NoVals))
    /\ pc' = "init"
    /\ UNCHANGED <<hasKey, pressed, widgets, form, output_code_display,
                   calls, locals, processed_code, exc, fault, prev>>

CheckCredential ==
    /\ pc = "start"
    /\ IF hasKey
         THEN /\ pc' = "init"
              /\ UNCHANGED messages
         ELSE /\ messages' = Append(messages,
                      Msg("error", "missing_key", MissingKeyMessage, NoVals))
              /\ pc' = "stopped"
    /\ UNCHANGED <<hasKey, pressed, widgets, form, output_code_display,
                   calls, locals, processed_code, exc, fault, prev>>

\* try: llm = ChatGoogleGenerativeAI(...)
\* except Exception as e: st.error(...); st.stop()
InitLLM ==
    /\ pc = "init"
    /\ \/ /\ pc' = "ui"
          /\ UNCHANGED messages
       \/ \E e \in RaisedBy("init") :
            /\ messages' = Append(messages,
                    Msg("error", "init_failed", InitFailedMessage,
                        [n \in {"e"} |-> e]))
            /\ pc' = "stopped"
    /\ UNCHANGED <<hasKey, pressed, widgets, form, output_code_display,
                   calls, locals, processed_code, exc, fault, prev>>

\* ------------------------------------------------------------------ UI

\* Title, the two columns with their select boxes, the text area and the
\* empty output placeholder.
RenderUI ==
    /\ pc = "ui"
    /\ form' = TRUE
    /\ input_language_name' = sel_input
    /\ input_language_slug' = LANGUAGES[sel_input]
    /\ output_language_name' = sel_output
    /\ output_language_slug' = LANGUAGES[sel_output]
    /\ output_code_display' = NoOutput
    /\ pc' = "button"
    /\ UNCHANGED <<hasKey, pressed, widgets, messages, calls,
                   processed_code, exc, fault, prev>>

\* if st.button("Process Code", ...):
Button ==
    /\ pc = "button"
    /\ pc' = IF pressed THEN "check" ELSE "footer"
    /\ UNCHANGED <<hasKey, pressed, widgets, form, output_code_display,
                   messages, calls, locals, processed_code, exc, fault, prev>>

\* ------------------------------------------------------------- handler

\* "if not input_code": the empty string is the only falsy text.
\* Variant: the empty-input check is missing.
EmptyInputNeverRejected(code) ==
    FALSE

EmptyInput(code) ==
    code = ""

\* "if input_language_slug == output_language_slug"
SameLanguage ==
    input_language_slug = output_language_slug

\* "except Exception" encloses the model call, the rendering of the output
\* and the success message: whatever one of them raises is caught.
\* Variant: the try block ends after the chain call.
CaughtModelCallOnly(step) ==
    step = "run"

Caught(step) ==
    step \in {"run", "code", "success"}

Raise(step, e) ==
    IF Caught(step)
      THEN pc' = "except" /\ exc' = e /\ fault' = fault
      ELSE pc' = "crashed" /\ exc' = e /\ fault' = TRUE

CheckInput ==
    /\ pc = "check"
    /\ IF EmptyInput(input_code)
         THEN /\ messages' = Append(messages,
                      Msg("warning", "empty_input", EmptyInputMessage, NoVals))
              /\ pc' = "footer"
         ELSE /\ pc' = "dispatch"
              /\ UNCHANGED messages
    /\ UNCHANGED <<hasKey, pressed, widgets, form, output_code_display,
                   calls, locals, processed_code, exc, fault, prev>>

ReadabilityCall ==
    LET args == [n \in {"language", "code"} |->
                    IF n = "language" THEN input_language_name ELSE input_code]
    IN  [chain |-> "readability", args |-> args,
         prompt |-> Render(readability_template, args)]

ConversionCall ==
    LET args == [n \in {"input_language", "output_language", "code"} |->
                    CASE n = "input_language"  -> input_language_name
                      [] n = "output_language" -> output_language_name
                      [] n = "code"            -> input_code]
    IN  [chain |-> "conversion", args |-> args,
         prompt |-> Render(conversion_template, args)]

\* readability_chain.run(...) / conversion_chain.run(...): the prompt is
\* rendered and sent; the script blocks until the model answers.
CallModel ==
    /\ pc = "dispatch"
    /\ calls' = Append(calls,
                       IF SameLanguage THEN ReadabilityCall ELSE ConversionCall)
    /\ pc' = "waiting"
    /\ UNCHANGED <<hasKey, pressed, widgets, form, output_code_display,
                   messages, locals, processed_code, exc, fault, prev>>

\* Variant: an empty answer is rejected inside the try block.
ModelRespondsValidated ==
    /\ pc = "waiting"
    /\ \/ \E t \in Texts :
            /\ processed_code' = t
            /\ IF t = ""
                 THEN Raise("run", "ValueError")
                 ELSE pc' = "render" /\ UNCHANGED <<exc, fault>>
       \/ \E e \in RaisedBy("run") :
            /\ Raise("run", e)
            /\ UNCHANGED processed_code
    /\ UNCHANGED <<hasKey, pressed, widgets, form, output_code_display,
                   messages, calls, locals, prev>>

ModelResponds ==
    /\ pc = "waiting"
    /\ \/ \E t \in Texts :
            /\ processed_code' = t
            /\ pc' = "render"
            /\ UNCHANGED <<exc, fault>>
       \/ \E e \in RaisedBy("run") :
            /\ Raise("run", e)
            /\ UNCHANGED processed_code
    /\ UNCHANGED <<hasKey, pressed, widgets, form, output_code_display,
                   messages, calls, locals, prev>>

\* output_code_display.code(processed_code, language=output_language_slug)
\* Variant: the hint is the slug of the input language.
RenderOutputInputHint ==
    /\ pc = "render"
    /\ \/ /\ output_code_display' =
                [shown |-> TRUE, text |-> processed_code,
                 language |-> input_language_slug]
          /\ pc' = "success"
          /\ UNCHANGED <<exc, fault>>
       \/ \E e \in RaisedBy("code") :
            /\ Raise("code", e)
            /\ UNCHANGED output_code_display
    /\ UNCHANGED <<hasKey, pressed, widgets, form, messages, calls, locals,
                   processed_code, prev>>

RenderOutput ==
    /\ pc = "render"
    /\ \/ /\ output_code_display' =
                [shown |-> TRUE, text |-> processed_code,
                 language |-> output_language_slug]
          /\ pc' = "success"
          /\ UNCHANGED <<exc, fault>>
       \/ \E e \in RaisedBy("code") :
            /\ Raise("code", e)
            /\ UNCHANGED output_code_display
    /\ UNCHANGED <<hasKey, pressed, widgets, form, messages, calls, locals,
                   processed_code, prev>>

SuccessMessage ==
    IF SameLanguage
      THEN Msg("success", "success", ImprovedMessage,
               [n \in {"input_language_name"} |-> input_language_name])
      ELSE Msg("success", "success", ConvertedMessage,
               [n \in {"input_language_name", "output_language_name"} |->
                   IF n = "input_language_name" THEN input_language_name
                                                ELSE output_language_name])

\* st.success(f"...")
ShowSuccess ==
    /\ pc = "success"
    /\ \/ /\ messages' = Append(messages, SuccessMessage)
          /\ pc' = "footer"
          /\ UNCHANGED <<exc, fault>>
       \/ \E e \in RaisedBy("success") :
            /\ Raise("success", e)
            /\ UNCHANGED messages
    /\ UNCHANGED <<hasKey, pressed, widgets, form, output_code_display,
                   calls, locals, processed_code, prev>>

\* except Exception as e: st.error(...); st.info(...)
\* Variant: the failed call is made once more.
HandleExceptionRetry ==
    /\ pc = "except"
    /\ messages' = messages \o
          << Msg("error", "processing_error", ProcessingErrorMessage,
                 [n \in {"e"} |-> exc]),
             Msg("info", "check_inputs", CheckInputsMessage, NoVals) >>
    /\ exc' = ""
    /\ pc' = IF Len(calls) < 2 THEN "dispatch" ELSE "footer"
    /\ UNCHANGED <<hasKey, pressed, widgets, form, output_code_display,
                   calls, locals, processed_code, fault, prev>>

HandleException ==
    /\ pc = "except"
    /\ messages' = messages \o
          << Msg("error", "processing_error", ProcessingErrorMessage,
                 [n \in {"e"} |-> exc]),
             Msg("info", "check_inputs", CheckInputsMessage, NoVals) >>
    /\ exc' = ""
    /\ pc' = "footer"
    /\ UNCHANGED <<hasKey, pressed, widgets, form, output_code_display,
                   calls, locals, processed_code, fault, prev>>

\* The rule, the tip and the credits that end the script.
Footer ==
    /\ pc = "footer"
    /\ messages' = Append(messages, Msg("info", "tip", TipMessage, NoVals))
    /\ pc' = "done"
    /\ UNCHANGED <<hasKey, pressed, widgets, form, output_code_display,
                   calls, locals, processed_code, exc, fault, prev>>

\* --------------------------------------------------------- user events

\* Streamlit starts the script again from its first line with an empty page;
\* the widget state is kept, script variables are not.
NewRun(byButton) ==
    /\ pc' = "start"
    /\ pressed' = byButton
    /\ form' = FALSE
    /\ output_code_display' = NoOutput
    /\ messages' = <<>>
    /\ calls' = <<>>
    /\ input_language_name' = ""
    /\ input_language_slug' = <<>>
    /\ output_language_name' = ""
    /\ output_language_slug' = <<>>
    /\ processed_code' = Unbound
    /\ exc' = ""
    /\ fault' = FALSE
    /\ prev' = Outcome
    /\ UNCHANGED hasKey

SelectInputLanguage ==
    /\ pc = "done"
    /\ form
    /\ \E n \in LanguageNames \ {sel_input} : sel_input' = n
    /\ UNCHANGED <<sel_output, input_code>>
    /\ NewRun(FALSE)

SelectOutputLanguage ==
    /\ pc = "done"
    /\ form
    /\ \E n \in LanguageNames \ {sel_output} : sel_output' = n
    /\ UNCHANGED <<sel_input, input_code>>
    /\ NewRun(FALSE)

EditCode ==
    /\ pc = "done"
    /\ form
    /\ \E c \in Codes \ {input_code} : input_code' = c
    /\ UNCHANGED <<sel_input, sel_output>>
    /\ NewRun(FALSE)

PressProcess ==
    /\ pc = "done"
    /\ form
    /\ UNCHANGED widgets
    /\ NewRun(TRUE)

\* Reloading the page opens a new session: the widgets are back at their
\* defaults.  The process environment is the same.
Reload ==
    /\ pc \in {"done", "stopped", "crashed"}
    /\ sel_input' = DefaultLanguage
    /\ sel_output' = DefaultLanguage
    /\ input_code' = ""
    /\ NewRun(FALSE)

Next ==
    \/ CheckCredential
    \/ InitLLM
    \/ RenderUI
    \/ Button
    \/ CheckInput
    \/ CallModel
    \/ ModelResponds
    \/ RenderOutput
    \/ ShowSuccess
    \/ HandleException
    \/ Footer
    \/ SelectInputLanguage
    \/ SelectOutputLanguage
    \/ EditCode
    \/ PressProcess
    \/ Reload

Spec ==
    Init /\ [][Next]_vars

TypeOK ==
    /\ hasKey \in BOOLEAN
    /\ pressed \in BOOLEAN
    /\ sel_input \in LanguageNames
    /\ sel_output \in LanguageNames
    /\ input_code \in Codes
    /\ pc \in {"start", "init", "ui", "button", "check", "dispatch",
               "waiting", "render", "success", "except", "footer", "done",
               "stopped", "crashed"}

\* ============================================================== claims

Words(text) ==
    {text[i] : i \in 1..Len(text)}

RECURSIVE Str(_)
Str(cs) ==
    IF cs = <<>> THEN "" ELSE Head(cs) \o Str(Tail(cs))

\* A request has been sent to a chain in this run.
Dispatched ==
    pc \in {"waiting", "render", "success", "except"}

\* The handler of a press has run to its end.
HandlerEnded ==
    pressed /\ form /\ pc \in {"footer", "done"}

OutcomeMessages ==
    {i \in 1..Len(messages) : messages[i].id \in {"success", "processing_error"}}

ErrorShown ==
    \E i \in 1..Len(messages) : messages[i].kind = "error"

\* C1: whatever two of the ten languages are selected and whatever non-empty
\* code is entered, a press calls the readability (IMPROVE) chain exactly when
\* the selected source and target names are equal and the conversion
\* (CONVERT) chain otherwise; a conversion call never carries equal source
\* and target languages.
C1_ModeBySelection ==
    /\ Dispatched => Len(calls) = 1 /\ input_code # ""
    /\ \A i \in 1..Len(calls) :
         /\ calls[i].chain = "readability" <=> sel_input = sel_output
         /\ calls[i].chain = "conversion" <=> sel_input # sel_output
         /\ calls[i].chain = "conversion" =>
              /\ calls[i].args["input_language"] = sel_input
              /\ calls[i].args["output_language"] = sel_output
              /\ calls[i].args["input_language"] # calls[i].args["output_language"]
         /\ calls[i].chain = "readability" =>
              calls[i].args["language"] = sel_input

C1_Witness ==
    /\ pc = "waiting"
    /\ calls[1].chain = "conversion"
    /\ sel_input = "JavaScript"
    /\ sel_output = "TypeScript"

\* C2: a press with empty code is rejected before a request is built: the
\* warning is shown, no chain is called, and no output, success or error is
\* rendered, whatever languages are selected.
C2_EmptyInputRejected ==
    (pressed /\ form /\ input_code = "") =>
        /\ calls = <<>>
        /\ ~Dispatched /\ pc # "dispatch"
        /\ ~output_code_display.shown
        /\ ~HasMessage("success")
        /\ ~ErrorShown
        /\ pc \in {"footer", "done"} => HasMessage("empty_input")

C2_Witness ==
    /\ pressed /\ input_code = "" /\ pc = "done"
    /\ HasMessage("empty_input")
    /\ sel_input # sel_output

\* C3: when the credential is absent, or the model client cannot be built
\* with it, the run reports an error that names the credential and stops:
\* no input form is rendered, no prompt is built, no chain is called.
C3_StartupFailureHalts ==
    /\ ~hasKey => pc \in {"start", "stopped"}
    /\ HasMessage("missing_key") \/ HasMessage("init_failed") => pc = "stopped"
    /\ pc = "stopped" =>
         /\ ~form
         /\ calls = <<>>
         /\ ~output_code_display.shown
         /\ Len(messages) = 1
         /\ messages[1].kind = "error"
         /\ CredentialName \in Words(messages[1].text)
         /\ messages[1].id = IF hasKey THEN "init_failed" ELSE "missing_key"
    /\ (form \/ calls # <<>>) =>
         hasKey /\ ~HasMessage("missing_key") /\ ~HasMessage("init_failed")

C3_Witness ==
    pc = "stopped" /\ ~hasKey /\ prev = "Stopped"

C5_NoPartialResult ==
    (pc = "done" /\ calls # <<>>) =>
        \/ /\ output_code_display.shown
           /\ output_code_display.text = processed_code
           /\ HasMessage("success")
           /\ ~ErrorShown
        \/ /\ ErrorShown
           /\ ~output_code_display.shown

\* The words of a rendered prompt that follow the word w.
After(text, w) ==
    {text[j + 1] : j \in {i \in 1..(Len(text) - 1) : text[i] = w}}

\* C6 (as stated): when the selected languages differ the conversion template
\* is used and the rendered prompt names the source language once and the
\* target language once.
C6_NamedOnceEach ==
    \A i \in 1..Len(calls) :
        sel_input # sel_output =>
            /\ calls[i].chain = "conversion"
            /\ Occurrences(calls[i].prompt, sel_input) = 1
            /\ Occurrences(calls[i].prompt, sel_output) = 1

\* C6 (amended): when the selected languages differ the conversion template
\* is used, and the rendered prompt names the source language exactly twice
\* and the target language exactly three times, each in its own places:
\* "Convert the following <source> code to <target> code", "use idiomatic
\* <target>", "<source> Code:" before the fenced code (which appears once)
\* and "<target> Code:" as the last line.
C6_ConvertPromptNamesLanguages ==
    /\ (Dispatched /\ sel_input # sel_output) => Len(calls) = 1
    /\ \A i \in 1..Len(calls) :
         sel_input # sel_output =>
            LET p == calls[i].prompt
                n == Len(p)
            IN  /\ calls[i].chain = "conversion"
                /\ "Convert" \in Words(p)
                /\ Occurrences(p, sel_input) = 2
                /\ Occurrences(p, sel_output) = 3
                /\ Occurrences(p, input_code) = 1
                /\ After(p, "following") = {sel_input}
                /\ After(p, "to") = {sel_output}
                /\ After(p, "idiomatic") = {sel_output}
                /\ After(p, "[fence]") \ {p[n - 1]} = {input_code}
                /\ p[n - 1] = sel_output /\ p[n] = "Code:"
                /\ \E j \in 1..n : p[j] = sel_input /\ p[j + 1] = "Code:"
                                   /\ p[j + 2] = "[fence]"

C6_Witness ==
    /\ pc = "waiting"
    /\ calls[1].chain = "conversion"
    /\ sel_input = "C++" /\ sel_output = "Python"
    /\ input_code = "int x=1;"

\* C7: when the selected languages are equal the readability template is
\* used, the rendered prompt contains the word "Improve", and the submitted
\* code fills exactly one placeholder: it appears once, between the fences.
C7_ImprovePromptOneCopy ==
    /\ (Dispatched /\ sel_input = sel_output) => Len(calls) = 1
    /\ \A i \in 1..Len(calls) :
         sel_input = sel_output =>
            LET p == calls[i].prompt
            IN  /\ calls[i].chain = "readability"
                /\ "Improve" \in Words(p)
                /\ Occurrences(p, input_code) = 1
                /\ \E j \in 1..Len(p) : /\ p[j] = "[fence]"
                                        /\ p[j + 1] = input_code
                                        /\ p[j + 2] = "[fence]"
                /\ Cardinality(SlotPositions(readability_template, "code")) = 1
                /\ Occurrences(p, sel_input) = 3

C7_Witness ==
    /\ pc = "waiting"
    /\ calls[1].chain = "readability"
    /\ sel_input = "Python" /\ sel_output = "Python"
    /\ input_code = "x=1"

IsLowercaseSlug(slug) ==
    /\ Len(slug) > 0
    /\ \A i \in 1..Len(slug) : slug[i] \in LowercaseChars

\* The language words a call puts into its prompt.
PromptLanguages(call) ==
    After(call.prompt, "following") \cup After(call.prompt, "idiomatic")
        \cup {call.prompt[Len(call.prompt) - 1]}

ReqState ==
    CASE HasMessage("success")          -> "Succeeded"
      [] HasMessage("processing_error") -> "Failed"
      [] calls # <<>>                   -> "Dispatching"
      [] OTHER                          -> "Idle"

ReqStep ==
    IF pc' = "start"
      THEN ReqState' = "Idle" /\ calls' = <<>>
      ELSE \/ ReqState' = ReqState /\ calls' = calls
           \/ /\ ReqState = "Idle" /\ ReqState' = "Dispatching"
              /\ Len(calls') = 1
              /\ calls'[1].chain \in {"readability", "conversion"}
           \/ /\ ReqState = "Dispatching"
              /\ ReqState' \in {"Succeeded", "Failed"}
              /\ calls' = calls

\* C9: a press with non-empty code goes Idle -> Dispatching -> Succeeded or
\* Failed: exactly one call on one of the two chains, no second call after a
\* failure, no step out of Succeeded or Failed within the run, and the next
\* run starts at Idle whatever the previous outcome was.
C9_RequestStateMachine ==
    /\ [](Len(calls) <= 1)
    /\ []((HandlerEnded /\ input_code # "") =>
             Len(calls) = 1 /\ ReqState \in {"Succeeded", "Failed"})
    /\ [](pc = "start" => ReqState = "Idle")
    /\ [][ReqStep]_vars

C9_Witness ==
    /\ prev = "Failed"
    /\ pressed
    /\ pc = "waiting"
    /\ ReqState = "Dispatching"

LastWord(text) ==
    text[Len(text)]

SuccessNamesLanguages ==
    \A i \in 1..Len(messages) :
        messages[i].id = "success" =>
            /\ sel_input \in Words(messages[i].text)
            /\ sel_input # sel_output => sel_output \in Words(messages[i].text)

====
